---- MODULE Spec2Model ----
(***************************************************************************)
(* Chain-of-Edits repair environment: the Edit Engine (src/src/env.py),    *)
(* the Corruption Generator (src/src/corruptor.py) and the Trace           *)
(* Synthesizer (src/src/demo_generator.py).                                *)
(*                                                                         *)
(* A Python str is a sequence of one-character strings; the few fixed      *)
(* texts of the diagnostics are single elements of such a sequence.        *)
(***************************************************************************)
EXTENDS Integers, Sequences, FiniteSets, TLC

VARIABLES
    tests,      \* DSLExecutor.tests
    lines,      \* CoEEnv.state.code_lines
    feedback,   \* CoEEnv.state.feedback
    op,         \* "init" after construction, "apply" after a call of apply
    action,     \* the text passed to the last call of apply
    before,     \* code_lines when the last call of apply started
    raised,     \* the exception the last call of apply propagated, or "none"
    pc,         \* generate_demo_for_example: the loop it is in, or "engine"
    clean,      \* clean_code_lines
    num_corruptions,
    code,       \* the lines being corrupted
    ops,        \* the corruptions applied, in order
    todo,       \* reversed(ops) still to invert
    current_lines,  \* current_lines of the inverse loop
    trace,      \* the trace built so far
    lists,      \* the heap of list objects: lists[r] is the content of list r
    objs,       \* the heap of ScratchpadState objects
    state,      \* CoEEnv.state: the ScratchpadState object the engine owns
    arg,        \* the list object the caller passed to CoEEnv as code_lines
    snaps,      \* the objects apply returned to the caller, in order
    who,        \* the object or list the caller mutated last
    traj,       \* rollout_one: traj
    hist,       \* per step of traj: what the loop saw when it recorded it
    turn,       \* rollout_one: the turns of the loop started so far
    max_turns,  \* rollout_one: max_turns
    generated,  \* the text sample_action returned last
    group_trajs,    \* compute_returns_and_advantages: group_trajs
    flat_steps,     \* compute_returns_and_advantages: flat_steps
    returns,        \* compute_returns_and_advantages: returns
    executed,       \* DSLExecutor.run: the texts given to exec(), in order
    batch_size,     \* train_loop: args.batch_size
    batch_start,    \* train_loop: i of the minibatch loop, counted from 1
    optimizer_steps,    \* the calls of optimizer.step() so far
    minibatches     \* per minibatch done: what the loop did with it

engine_vars == <<tests, lines, feedback, op, action, before, raised>>
demo_vars == <<pc, clean, num_corruptions, code, ops, todo, current_lines, trace>>
own_vars == <<lists, objs, state, arg, snaps, who>>
rollout_vars == <<traj, hist, turn, max_turns, generated>>
adv_vars == <<group_trajs, flat_steps, returns>>
run_vars == <<executed>>
train_vars == <<batch_size, batch_start, optimizer_steps, minibatches>>

\* the variables of the parts that take no step
OwnIdle ==
    /\ lists = <<>> /\ objs = <<>> /\ state = 0 /\ arg = 0 /\ snaps = <<>> /\ who = 0
RolloutIdle ==
    /\ traj = <<>> /\ hist = <<>> /\ turn = 0 /\ max_turns = 0 /\ generated = <<>>
AdvIdle ==
    /\ group_trajs = <<>> /\ flat_steps = <<>> /\ returns = <<>>
RunIdle ==
    /\ executed = <<>>
TrainIdle ==
    /\ batch_size = 0 /\ batch_start = 0 /\ optimizer_steps = 0 /\ minibatches = <<>>

----------------------------------------------------------------------------
(* Bounds of the model *)

MaxLines == 3           \* longest buffer of the Edit Engine explored
MaxCleanLines == 2      \* longest clean buffer given to the Trace Synthesizer
MaxCorruptions == 2     \* largest num_corruptions explored

----------------------------------------------------------------------------
(* Python str primitives *)

SP == <<" ">>
GT3 == <<">", ">", ">">>
NL == <<"\n">>

DigitChars == <<"0", "1", "2", "3", "4", "5", "6", "7", "8", "9">>

\* str.isspace for one character
IsSpace(c) == c \in {" ", "\t", "\n"}

\* characters int() and the regex class \d accept
IsDecimal(c) == \E i \in 1..10 : DigitChars[i] = c

\* characters str.isdigit() accepts: the decimals and digits such as the
\* superscript two, which int() rejects
IsDigitChar(c) == IsDecimal(c) \/ c = "^2"

DigitVal(c) == (CHOOSE i \in 1..10 : DigitChars[i] = c) - 1

RECURSIVE lstrip(_)
lstrip(s) ==
    IF s = <<>> THEN s
    ELSE IF IsSpace(Head(s)) THEN lstrip(Tail(s)) ELSE s

RECURSIVE rstrip(_)
rstrip(s) ==
    IF s = <<>> THEN s
    ELSE IF IsSpace(s[Len(s)]) THEN rstrip(SubSeq(s, 1, Len(s) - 1)) ELSE s

\* str.strip()
strip(s) == rstrip(lstrip(s))

\* length of the leading run of non-space characters
RECURSIVE WordLen(_)
WordLen(s) ==
    IF s = <<>> \/ IsSpace(Head(s)) THEN 0 ELSE 1 + WordLen(Tail(s))

\* str.split() with no argument: the whitespace-delimited words
RECURSIVE split(_)
split(s) ==
    LET t == lstrip(s) IN
    IF t = <<>> THEN <<>>
    ELSE LET k == WordLen(t) IN
         <<SubSeq(t, 1, k)>> \o split(SubSeq(t, k + 1, Len(t)))

\* str.isdigit()
isdigit(s) == s # <<>> /\ \A i \in 1..Len(s) : IsDigitChar(s[i])

\* int(s) succeeds
int_ok(s) == s # <<>> /\ \A i \in 1..Len(s) : IsDecimal(s[i])

\* int(s) for a string of decimals
RECURSIVE int(_)
int(s) ==
    IF s = <<>> THEN 0
    ELSE 10 * int(SubSeq(s, 1, Len(s) - 1)) + DigitVal(s[Len(s)])

\* str(n), as an f-string formats a non-negative int
RECURSIVE str(_)
str(n) ==
    IF n < 10 THEN <<DigitChars[n + 1]>>
    ELSE str(n \div 10) \o <<DigitChars[(n % 10) + 1]>>

startswith(s, p) == Len(s) >= Len(p) /\ SubSeq(s, 1, Len(p)) = p

\* s.find(p) + 1: the 1-based start of the first occurrence, 0 when none
find(s, p) ==
    LET hits == {i \in 1..(Len(s) - Len(p) + 1) : SubSeq(s, i, i + Len(p) - 1) = p}
    IN IF hits = {} THEN 0 ELSE CHOOSE i \in hits : \A j \in hits : i <= j

\* p in s
contains(s, p) == find(s, p) # 0

\* s.split(p, 1)[1]
split1_tail(s, p) == SubSeq(s, find(s, p) + Len(p), Len(s))

\* str.replace(old, new): leftmost non-overlapping occurrences; an empty
\* old matches before every character and at the end
RECURSIVE str_replace(_, _, _)
str_replace(s, old, new) ==
    IF old = <<>> THEN
        IF s = <<>> THEN new
        ELSE new \o <<Head(s)>> \o str_replace(Tail(s), old, new)
    ELSE IF s = <<>> THEN <<>>
    ELSE IF startswith(s, old)
         THEN new \o str_replace(SubSeq(s, Len(old) + 1, Len(s)), old, new)
         ELSE <<Head(s)>> \o str_replace(Tail(s), old, new)

\* "\n".join(xs)
RECURSIVE join_nl(_)
join_nl(xs) ==
    IF xs = <<>> THEN <<>>
    ELSE IF Len(xs) = 1 THEN xs[1]
    ELSE xs[1] \o NL \o join_nl(Tail(xs))

\* list.pop(i - 1) with 1 <= i <= len
pop(xs, i) == SubSeq(xs, 1, i - 1) \o SubSeq(xs, i + 1, Len(xs))

\* list.insert(i - 1, x) with 1 <= i <= len + 1
insert(xs, i, x) == SubSeq(xs, 1, i - 1) \o <<x>> \o SubSeq(xs, i, Len(xs))

Max(a, b) == IF a >= b THEN a ELSE b
Min(a, b) == IF a <= b THEN a ELSE b

----------------------------------------------------------------------------
(* Test Harness: DSLExecutor *)

\* The interpreter behind exec() is a fixed function of the text it is given.
\* Here a statement is one line of the text; a line containing "!" cannot be
\* executed, and a line that is exactly a name binds that name.  A test
\* statement names the binding it asserts and raises when it is missing.
Statements(code_text) ==
    LET starts == {1} \cup {i + 1 : i \in {j \in 1..Len(code_text) : code_text[j] = "\n"}}
        stop(i) == IF \E j \in i..Len(code_text) : code_text[j] = "\n"
                   THEN (CHOOSE j \in i..Len(code_text) :
                            /\ code_text[j] = "\n"
                            /\ \A k \in i..(j - 1) : code_text[k] # "\n") - 1
                   ELSE Len(code_text)
    IN {SubSeq(code_text, i, stop(i)) : i \in starts}

\* exec(code_text, g, g) raises
ExecRaises(code_text) == \E i \in 1..Len(code_text) : code_text[i] = "!"

\* exec(test, g, g) raises in the namespace g that code_text populated
TestRaises(code_text, test) == test \notin Statements(code_text)

\* traceback.format_exc()
format_exc == <<"Traceback (most recent call last):\n">>

\* f"Test {i} failed!\nTest code:\n{t}\nError: {err}"
FailureMessage(i, t) ==
    <<"Test ">> \o str(i) \o <<" failed!\nTest code:\n">> \o t
        \o <<"\nError: ", "AssertionError()">>

\* the list `failed`: the 1-based indexes of the raising tests, in list order
RECURSIVE failed(_, _, _)
failed(code_text, ts, idx) ==
    IF idx > Len(ts) THEN <<>>
    ELSE (IF TestRaises(code_text, ts[idx]) THEN <<idx>> ELSE <<>>)
            \o failed(code_text, ts, idx + 1)

\* the texts the loop over the tests gives to exec(), from test idx on: a
\* raising test is caught and the loop goes on
RECURSIVE test_calls(_, _, _)
test_calls(code_text, ts, idx) ==
    IF idx > Len(ts) THEN <<>>
    ELSE <<ts[idx]>> \o test_calls(code_text, ts, idx + 1)

\* the texts run gives to exec(), in order: code_text, then the tests unless
\* code_text raised
exec_calls(code_text, ts) ==
    IF ExecRaises(code_text) THEN <<code_text>>
    ELSE <<code_text>> \o test_calls(code_text, ts, 1)

\* run as it would be if the loop over the tests stopped after the first test
run_first_test_only(code_text, ts) ==
    IF ExecRaises(code_text) THEN format_exc
    ELSE IF ts # <<>> /\ TestRaises(code_text, ts[1])
         THEN FailureMessage(1, ts[1])
         ELSE <<>>

\* DSLExecutor.run
run(code_text, ts) ==
    IF ExecRaises(code_text) THEN format_exc
    ELSE LET f == failed(code_text, ts, 1) IN
         IF f = <<>> THEN <<>>
         ELSE join_nl([k \in 1..Len(f) |-> FailureMessage(f[k], ts[f[k]])])

\* CoEEnv.update_feedback: the feedback of the buffer ls
update_feedback(ls, ts) == run(join_nl(ls), ts)

----------------------------------------------------------------------------
(* Edit Engine: CoEEnv.apply *)

V_DELL == <<"D", "E", "L", "L">>
V_ADDL == <<"A", "D", "D", "L">>
V_REPL == <<"R", "E", "P", "L">>
V_REPW == <<"R", "E", "P", "W">>
V_EXIT == <<"E", "X", "I", "T">>

\* the outcome of the body of apply before update_feedback: the new
\* code_lines and the exception raised, if any
Done(ls) == [lines |-> ls, exc |-> "none"]
Raise(ls, e) == [lines |-> ls, exc |-> e]

\* the DELL branch as it would be with pop(ln) in the place of pop(ln - 1)
apply_DELL_off_by_one(ls, act, parts) ==
    IF Len(parts) >= 2 /\ isdigit(parts[2]) THEN
        IF ~int_ok(parts[2]) THEN Raise(ls, "ValueError")
        ELSE LET ln == int(parts[2]) IN
             IF 1 <= ln /\ ln <= Len(ls)
             THEN (IF ln = Len(ls) THEN Raise(ls, "IndexError") ELSE Done(pop(ls, ln + 1)))
             ELSE Done(ls)
    ELSE Done(ls)

\* the DELL branch
apply_DELL(ls, act, parts) ==
    IF Len(parts) >= 2 /\ isdigit(parts[2]) THEN
        IF ~int_ok(parts[2]) THEN Raise(ls, "ValueError")
        ELSE LET ln == int(parts[2]) IN
             IF 1 <= ln /\ ln <= Len(ls) THEN Done(pop(ls, ln)) ELSE Done(ls)
    ELSE Done(ls)

\* the ADDL branch as it would be if it ignored, like REPL, a line number
\* outside [1, len + 1] in the place of clamping it
apply_ADDL_no_clamp(ls, act, parts) ==
    IF Len(parts) >= 2 /\ isdigit(parts[2]) THEN
        IF ~int_ok(parts[2]) THEN Raise(ls, "ValueError")
        ELSE LET ln == int(parts[2])
                 insertion == IF contains(act, GT3) THEN split1_tail(act, GT3) ELSE <<>>
             IN IF 1 <= ln /\ ln <= Len(ls) + 1
                THEN Done(insert(ls, ln, insertion))
                ELSE Done(ls)
    ELSE Done(ls)

\* the ADDL branch
apply_ADDL(ls, act, parts) ==
    IF Len(parts) >= 2 /\ isdigit(parts[2]) THEN
        IF ~int_ok(parts[2]) THEN Raise(ls, "ValueError")
        ELSE LET ln0 == int(parts[2])
                 insertion == IF contains(act, GT3) THEN split1_tail(act, GT3) ELSE <<>>
                 ln == Max(1, Min(ln0, Len(ls) + 1))
             IN Done(insert(ls, ln, insertion))
    ELSE Done(ls)

\* the REPL branch as it would be without the lower bound of the range
\* check: code_lines[-1] is the last line
apply_REPL_no_lower_bound(ls, act, parts) ==
    IF Len(parts) >= 2 /\ isdigit(parts[2]) THEN
        IF ~int_ok(parts[2]) THEN Raise(ls, "ValueError")
        ELSE LET ln == int(parts[2])
                 replacement == IF contains(act, GT3) THEN split1_tail(act, GT3) ELSE <<>>
             IN IF ln <= Len(ls)
                THEN (IF ls = <<>> THEN Raise(ls, "IndexError")
                      ELSE Done([ls EXCEPT ![IF ln = 0 THEN Len(ls) ELSE ln] = replacement]))
                ELSE Done(ls)
    ELSE Done(ls)

\* the REPL branch
apply_REPL(ls, act, parts) ==
    IF Len(parts) >= 2 /\ isdigit(parts[2]) THEN
        IF ~int_ok(parts[2]) THEN Raise(ls, "ValueError")
        ELSE LET ln == int(parts[2])
                 replacement == IF contains(act, GT3) THEN split1_tail(act, GT3) ELSE <<>>
             IN IF 1 <= ln /\ ln <= Len(ls)
                THEN Done([ls EXCEPT ![ln] = replacement])
                ELSE Done(ls)
    ELSE Done(ls)

\* length of the leading run of whitespace (\s+) and of decimals (\d+)
RECURSIVE SpaceRun(_)
SpaceRun(s) == IF s = <<>> \/ ~IsSpace(Head(s)) THEN 0 ELSE 1 + SpaceRun(Tail(s))

RECURSIVE DigitRun(_)
DigitRun(s) == IF s = <<>> \/ ~IsDecimal(Head(s)) THEN 0 ELSE 1 + DigitRun(Tail(s))

\* re.match(r"REPW\s+(\d+)\s+>>>(.*?)>>>(.*)$", action): the groups, or no match
NoMatch == [ok |-> FALSE, ln |-> <<>>, old |-> <<>>, new |-> <<>>]

REPW_match(act) ==
    IF ~startswith(act, V_REPW) THEN NoMatch
    ELSE LET r1 == SubSeq(act, 5, Len(act))
             w1 == SpaceRun(r1)
             r2 == SubSeq(r1, w1 + 1, Len(r1))
             d == DigitRun(r2)
             r3 == SubSeq(r2, d + 1, Len(r2))
             w2 == SpaceRun(r3)
             r4 == SubSeq(r3, w2 + 1, Len(r3))
             r5 == SubSeq(r4, 4, Len(r4))
         IN IF /\ w1 >= 1 /\ d >= 1 /\ w2 >= 1
               /\ startswith(r4, GT3)
               /\ contains(r5, GT3)
               /\ ~contains(r5, NL)
            THEN [ok |-> TRUE, ln |-> SubSeq(r2, 1, d),
                  old |-> SubSeq(r5, 1, find(r5, GT3) - 1),
                  new |-> split1_tail(r5, GT3)]
            ELSE NoMatch

\* the REPW branch as it would be with replace(old, new, 1)
apply_REPW_first_only(ls, act, parts) ==
    LET m == REPW_match(act) IN
    IF m.ok THEN
        LET ln == int(m.ln) IN
        IF 1 <= ln /\ ln <= Len(ls)
        THEN LET s == ls[ln]
                 i == find(s, m.old)
             IN Done([ls EXCEPT ![ln] =
                        IF i = 0 THEN s
                        ELSE SubSeq(s, 1, i - 1) \o m.new
                                \o SubSeq(s, i + Len(m.old), Len(s))])
        ELSE Done(ls)
    ELSE Done(ls)

\* the REPW branch
apply_REPW(ls, act, parts) ==
    LET m == REPW_match(act) IN
    IF m.ok THEN
        LET ln == int(m.ln) IN
        IF 1 <= ln /\ ln <= Len(ls)
        THEN Done([ls EXCEPT ![ln] = str_replace(ls[ln], m.old, m.new)])
        ELSE Done(ls)
    ELSE Done(ls)

\* apply as it would be if an unknown verb were read as DELL
apply_edit_unknown_as_DELL(ls, action_text) ==
    LET act == strip(action_text)
        parts == split(act)
    IN IF parts = <<>> THEN Raise(ls, "IndexError")
       ELSE IF parts[1] = V_ADDL THEN apply_ADDL(ls, act, parts)
       ELSE IF parts[1] = V_REPL THEN apply_REPL(ls, act, parts)
       ELSE IF parts[1] = V_REPW THEN apply_REPW(ls, act, parts)
       ELSE IF parts[1] = V_EXIT THEN Done(ls)
       ELSE apply_DELL(ls, act, parts)

\* the body of apply up to, and not including, update_feedback
apply_edit(ls, action_text) ==
    LET act == strip(action_text)
        parts == split(act)
    IN IF parts = <<>> THEN Raise(ls, "IndexError")
       ELSE IF parts[1] = V_DELL THEN apply_DELL(ls, act, parts)
       ELSE IF parts[1] = V_ADDL THEN apply_ADDL(ls, act, parts)
       ELSE IF parts[1] = V_REPL THEN apply_REPL(ls, act, parts)
       ELSE IF parts[1] = V_REPW THEN apply_REPW(ls, act, parts)
       ELSE Done(ls)

----------------------------------------------------------------------------
(* Inputs explored *)

\* line texts of the initial buffers: empty, two statements, a statement
\* that cannot be executed, and one with trailing whitespace
LineTexts == {<<>>, <<"a">>, <<"a", "a">>, <<"!">>, <<"!", " ">>}

\* test lists of the tasks
TestLists == {<< <<"a">>, <<"a", "a">> >>}

\* all buffers of at most n lines over the texts T
RECURSIVE Buffers(_, _)
Buffers(T, n) ==
    IF n = 0 THEN {<<>>}
    ELSE LET B == Buffers(T, n - 1) IN
         B \cup {Append(b, t) : b \in {c \in B : Len(c) = n - 1}, t \in T}

\* the action texts of the documented grammar
FmtDELL(num) == V_DELL \o SP \o num
FmtADDL(num, content) == V_ADDL \o SP \o num \o SP \o GT3 \o content
FmtREPL(num, content) == V_REPL \o SP \o num \o SP \o GT3 \o content
\* REPW as the code comment writes it: REPW 3 >>>return>>>yield
FmtREPW(num, old, new) == V_REPW \o SP \o num \o SP \o GT3 \o old \o GT3 \o new
\* REPW as the class docstring and the prompt write it: REPW <line> >>><old> >>><new>
FmtREPWdoc(num, old, new) == V_REPW \o SP \o num \o SP \o GT3 \o old \o SP \o GT3 \o new

\* texts in the place of the line number that are no decimal number:
\* signed, a digit that int() rejects, a word
BadNums == {<<"-", "1">>, <<"^2">>, <<"x">>}

\* contents of the ADDL actions explored
AddContents == {<<"a">>, <<"!", " ">>}

\* further texts: empty, blank, bare verbs, unknown verbs, padded, with an
\* extra word, ADDL and REPL without content, REPW without its fields
EdgeTexts ==
    { <<>>, SP, V_DELL, V_ADDL, V_EXIT,
      <<"F", "O", "O">> \o SP \o <<"1">>,
      V_DELL \o <<"X">> \o SP \o <<"1">>,
      SP \o V_DELL \o SP \o <<"1">> \o SP,
      V_DELL \o SP \o <<"1">> \o SP \o <<"x">>,
      V_DELL \o SP \o <<"9", "9">>,
      V_ADDL \o SP \o <<"1">>,
      V_REPL \o SP \o <<"1">>,
      V_REPW \o SP \o <<"1">> \o SP \o GT3 \o <<"a">>,
      V_REPW \o SP \o <<"1">> \o GT3 \o <<"a">> \o GT3,
      V_REPW \o SP \o <<"^2">> \o SP \o GT3 \o <<"a">> \o GT3 }

ActionTexts(ls) ==
    {FmtDELL(str(n)) : n \in 0..(Len(ls) + 1)}
    \cup {FmtDELL(n) : n \in BadNums}
    \cup {FmtADDL(str(n), <<"a">>) : n \in 0..(Len(ls) + 2)}
    \cup {FmtADDL(str(n), <<"!", " ">>) : n \in {1, Len(ls) + 1}}
    \cup {FmtADDL(n, <<"a">>) : n \in BadNums}
    \cup {FmtREPL(<<"x">>, <<"a">>)}
    \cup {FmtREPL(str(n), ls[n]) : n \in 1..Len(ls)}
    \cup {FmtREPL(str(n), <<"a">>) : n \in 0..(Len(ls) + 1)}
    \cup {FmtREPW(str(n), <<"a">>, <<>>) : n \in 0..(Len(ls) + 1)}
    \cup {FmtREPWdoc(str(1), <<"a">>, <<>>)}
    \cup EdgeTexts

WithinBounds(ls) == Len(ls) <= MaxLines

----------------------------------------------------------------------------
(* The Edit Engine as a state machine *)

\* CoEEnv.__init__
Init ==
    /\ tests \in TestLists
    /\ lines \in Buffers(LineTexts, MaxLines)
    /\ feedback = update_feedback(lines, tests)
    /\ op = "init"
    /\ action = <<>>
    /\ before = lines
    /\ raised = "none"
    /\ pc = "engine"
    /\ clean = <<>> /\ num_corruptions = 0 /\ code = <<>> /\ ops = <<>> /\ todo = <<>>
    /\ current_lines = <<>> /\ trace = <<>>
    /\ OwnIdle /\ RolloutIdle /\ AdvIdle /\ RunIdle /\ TrainIdle

\* apply as it would be without the call of update_feedback
Apply_keeps_feedback ==
    /\ pc = "engine"
    /\ \E a \in ActionTexts(lines) :
        \E r \in {apply_edit(lines, a)} :
            /\ WithinBounds(r.lines)
            /\ lines' = r.lines
            /\ feedback' = feedback
            /\ op' = "apply"
            /\ action' = a
            /\ before' = lines
            /\ raised' = r.exc
            /\ UNCHANGED tests
    /\ UNCHANGED <<demo_vars, own_vars, rollout_vars, adv_vars, run_vars, train_vars>>

\* CoEEnv.apply(a): an exception leaves apply before update_feedback
Apply ==
    /\ pc = "engine"
    /\ \E a \in ActionTexts(lines) :
        \E r \in {apply_edit(lines, a)} :
            /\ WithinBounds(r.lines)
            /\ lines' = r.lines
            /\ feedback' = IF r.exc = "none" THEN update_feedback(r.lines, tests)
                           ELSE feedback
            /\ op' = "apply"
            /\ action' = a
            /\ before' = lines
            /\ raised' = r.exc
            /\ UNCHANGED tests
    /\ UNCHANGED <<demo_vars, own_vars, rollout_vars, adv_vars, run_vars, train_vars>>

Next == Apply

vars == <<tests, lines, feedback, op, action, before, raised,
          pc, clean, num_corruptions, code, ops, todo, current_lines, trace,
          lists, objs, state, arg, snaps, who,
          traj, hist, turn, max_turns, generated, group_trajs, flat_steps, returns,
          executed, batch_size, batch_start, optimizer_steps, minibatches>>

Spec == Init /\ [][Next]_vars

----------------------------------------------------------------------------
(* Corruption Generator: src/src/corruptor.py.  The values the code draws
   from random are parameters. *)

\* delete_line, idx = random.randrange(len(code_lines)) + 1
delete_line(code_lines, idx) ==
    IF code_lines = <<>> THEN code_lines
    ELSE SubSeq(code_lines, 1, idx - 1) \o SubSeq(code_lines, idx + 1, Len(code_lines))

\* add_line, idx = random.randrange(len(code_lines) + 1) + 1
add_line(code_lines, idx, line) ==
    SubSeq(code_lines, 1, idx - 1) \o <<line>> \o SubSeq(code_lines, idx, Len(code_lines))

\* replace_line
replace_line(code_lines, idx, line) ==
    IF code_lines = <<>> THEN code_lines
    ELSE [code_lines EXCEPT ![idx] = line]

\* " ".join(words)
RECURSIVE join_sp(_)
join_sp(words) ==
    IF words = <<>> THEN <<>>
    ELSE IF Len(words) = 1 THEN words[1]
    ELSE words[1] \o SP \o join_sp(Tail(words))

\* the word w with the typo: a character replaced, or a letter appended
typo(w, pos, letter) ==
    IF Len(w) > 1
    THEN SubSeq(w, 1, pos - 1) \o <<letter>> \o SubSeq(w, pos + 1, Len(w))
    ELSE w \o <<letter>>

\* typo_word
typo_word(code_lines, idx, wi, pos, letter) ==
    IF code_lines = <<>> THEN code_lines
    ELSE LET words == split(code_lines[idx]) IN
         IF words = <<>> THEN code_lines
         ELSE [code_lines EXCEPT
                 ![idx] = join_sp([words EXCEPT ![wi] = typo(words[wi], pos, letter)])]

----------------------------------------------------------------------------
(* Trace Synthesizer: src/src/demo_generator.py *)

CORRUPTION_TYPES == {"delete", "add", "replace", "typo"}

\* ScratchpadState.render
render(code_lines, fb) ==
    join_nl([i \in 1..Len(code_lines) |-> <<"L", " ">> \o str(i) \o SP \o code_lines[i]])
        \o <<"\n", "*", "*", "*", "\n">> \o fb

\* the lowest 1-based index i <= Len(xs) where ys has no line or another
\* line than xs, 0 when there is none
FirstDiff(xs, ys) ==
    LET d == {i \in 1..Len(xs) : i > Len(ys) \/ ys[i] # xs[i]}
    IN IF d = {} THEN 0 ELSE CHOOSE i \in d : \A j \in d : i <= j

Action(text) == [ok |-> TRUE, text |-> text]
IndexError == [ok |-> FALSE, text |-> <<>>]

\* invert_action_for_op: the action text, or the IndexError of clean_lines[-1]
\* and clean_lines[0] on an empty clean_lines
invert_action_for_op(op_type, clean_lines, cur) ==
    IF op_type = "delete" THEN
        LET i == FirstDiff(clean_lines, cur) IN
        IF i # 0 THEN Action(FmtADDL(str(i), clean_lines[i]))
        ELSE IF clean_lines = <<>> THEN IndexError
        ELSE Action(FmtADDL(str(Len(cur) + 1), clean_lines[Len(clean_lines)]))
    ELSE IF op_type = "add" THEN
        LET i == FirstDiff(cur, clean_lines) IN
        IF i # 0 THEN Action(FmtDELL(str(i)))
        ELSE Action(FmtDELL(str(Len(cur))))
    ELSE IF op_type \in {"replace", "typo"} THEN
        LET i == FirstDiff(clean_lines, cur) IN
        IF i # 0 THEN Action(FmtREPL(str(i), clean_lines[i]))
        ELSE IF clean_lines = <<>> THEN IndexError
        ELSE Action(FmtREPL(str(1), clean_lines[1]))
    ELSE Action(V_EXIT)

RECURSIVE reversed(_)
reversed(xs) == IF xs = <<>> THEN <<>> ELSE Append(reversed(Tail(xs)), Head(xs))

\* clean line texts, donor lines and the letters a typo draws; main puts the
\* lines of every clean solution into the donor pool
CleanTexts == {<<"a">>, <<"!", " ">>}
DonorPool == {<<"a">>, <<"a", "a">>}
Letters == {"a", "b"}

\* generate_demo_for_example(clean, tests, DonorPool, num_corruptions) is called
DemoInit ==
    /\ tests \in TestLists
    /\ clean \in Buffers(CleanTexts, MaxCleanLines)
    /\ num_corruptions \in 1..MaxCorruptions
    /\ code = clean
    /\ ops = <<>>
    /\ pc = "corrupt"
    /\ todo = <<>> /\ current_lines = <<>> /\ trace = <<>>
    /\ lines = <<>> /\ feedback = <<>> /\ op = "none"
    /\ action = <<>> /\ before = <<>> /\ raised = "none"
    /\ OwnIdle /\ RolloutIdle /\ AdvIdle /\ RunIdle /\ TrainIdle

Corrupted(new_code, c) ==
    /\ code' = new_code
    /\ ops' = Append(ops, c)
    /\ UNCHANGED <<engine_vars, pc, clean, num_corruptions, todo, current_lines, trace>>
    /\ UNCHANGED <<own_vars, rollout_vars, adv_vars, run_vars, train_vars>>

\* one turn of the corruption loop with c == "delete"
CorruptDelete ==
    /\ pc = "corrupt" /\ Len(ops) < num_corruptions
    /\ \E idx \in 1..Max(1, Len(code)) : Corrupted(delete_line(code, idx), "delete")

\* one turn of the corruption loop with c == "add"
CorruptAdd ==
    /\ pc = "corrupt" /\ Len(ops) < num_corruptions
    /\ \E idx \in 1..(Len(code) + 1) : \E line \in DonorPool :
            Corrupted(add_line(code, idx, line), "add")

\* one turn of the corruption loop with c == "replace"
CorruptReplace ==
    /\ pc = "corrupt" /\ Len(ops) < num_corruptions
    /\ \E idx \in 1..Max(1, Len(code)) : \E line \in DonorPool :
            Corrupted(replace_line(code, idx, line), "replace")

\* one turn of the corruption loop with c == "typo"
CorruptTypo ==
    /\ pc = "corrupt" /\ Len(ops) < num_corruptions
    /\ \E idx \in 1..Max(1, Len(code)) :
         LET words == IF code = <<>> THEN <<>> ELSE split(code[idx]) IN
         \E wi \in 1..Max(1, Len(words)) :
            \E pos \in 1..(IF words = <<>> THEN 1 ELSE Len(words[wi])) :
                \E letter \in Letters :
                    Corrupted(typo_word(code, idx, wi, pos, letter), "typo")

\* env = CoEEnv(code, tests) and the first element of the trace
StartEnv ==
    /\ pc = "corrupt" /\ Len(ops) = num_corruptions
    /\ lines' = code
    /\ feedback' = update_feedback(code, tests)
    /\ op' = "init" /\ action' = <<>> /\ before' = code /\ raised' = "none"
    /\ trace' = <<render(code, feedback')>>
    /\ current_lines' = code
    /\ todo' = reversed(ops)
    /\ pc' = "invert"
    /\ UNCHANGED <<tests, clean, num_corruptions, code, ops>>
    /\ UNCHANGED <<own_vars, rollout_vars, adv_vars, run_vars, train_vars>>

\* one turn of the inverse loop
Invert ==
    /\ pc = "invert" /\ todo # <<>>
    /\ UNCHANGED <<own_vars, rollout_vars, adv_vars, run_vars, train_vars>>
    /\ \E inv \in {invert_action_for_op(Head(todo), clean, current_lines)} :
        IF ~inv.ok
        THEN /\ pc' = "raised"
             /\ UNCHANGED <<engine_vars, clean, num_corruptions, code, ops, todo,
                            current_lines, trace>>
        ELSE \E r \in {apply_edit(lines, inv.text)} :
             /\ lines' = r.lines
             /\ feedback' = IF r.exc = "none" THEN update_feedback(r.lines, tests)
                            ELSE feedback
             /\ op' = "apply" /\ action' = inv.text /\ before' = lines
             /\ raised' = r.exc
             /\ IF r.exc = "none"
                THEN /\ trace' = trace \o <<inv.text, render(lines', feedback')>>
                     /\ current_lines' = lines'
                     /\ todo' = Tail(todo)
                     /\ pc' = pc
                ELSE /\ trace' = Append(trace, inv.text)
                     /\ pc' = "raised"
                     /\ UNCHANGED <<current_lines, todo>>
             /\ UNCHANGED <<tests, clean, num_corruptions, code, ops>>

\* the return as it would be without the closing EXIT
Finish_without_EXIT ==
    /\ pc = "invert" /\ todo = <<>>
    /\ pc' = "done"
    /\ UNCHANGED <<engine_vars, clean, num_corruptions, code, ops, todo, current_lines,
                   trace>>
    /\ UNCHANGED <<own_vars, rollout_vars, adv_vars, run_vars, train_vars>>

\* trace.append("EXIT") and the return
Finish ==
    /\ pc = "invert" /\ todo = <<>>
    /\ trace' = Append(trace, V_EXIT)
    /\ pc' = "done"
    /\ UNCHANGED <<engine_vars, clean, num_corruptions, code, ops, todo, current_lines>>
    /\ UNCHANGED <<own_vars, rollout_vars, adv_vars, run_vars, train_vars>>

DemoNext ==
    \/ CorruptDelete \/ CorruptAdd \/ CorruptReplace \/ CorruptTypo
    \/ StartEnv \/ Invert \/ Finish

SpecDemo == DemoInit /\ [][DemoNext]_vars

----------------------------------------------------------------------------
(* Ownership of the CodeState: list and ScratchpadState objects by identity.
   lists[r] is the content of the list object r, objs[o] the fields of the
   ScratchpadState object o; a new object is appended to its heap. *)

MaxSnaps == 2           \* most snapshots a caller holds

\* what a holder of the ScratchpadState object o reads through it
View(o) == [code_lines |-> lists[objs[o].code_lines], feedback |-> objs[o].feedback]

\* ScratchpadState.__init__: list(code_lines) is a new list of the same strings
ScratchpadState(heap, r, fb) ==
    [lists |-> Append(heap.lists, heap.lists[r]),
     objs |-> Append(heap.objs, [code_lines |-> Len(heap.lists) + 1, feedback |-> fb]),
     ref |-> Len(heap.objs) + 1]

\* copy.copy in the place of deepcopy: a new object that shares the list
deepcopy_shallow(heap, o) ==
    [lists |-> heap.lists,
     objs |-> Append(heap.objs, heap.objs[o]),
     ref |-> Len(heap.objs) + 1]

\* deepcopy(self.state): a new object that holds a new list of the same strings
deepcopy(heap, o) ==
    [lists |-> Append(heap.lists, heap.lists[heap.objs[o].code_lines]),
     objs |-> Append(heap.objs, [code_lines |-> Len(heap.lists) + 1,
                                 feedback |-> heap.objs[o].feedback]),
     ref |-> Len(heap.objs) + 1]

\* the code_lines the caller builds and the actions it sends
OwnBuffers == {<< <<"a">> >>, << <<"!">> >>}
OwnActions == {<<>>, FmtDELL(str(1)), FmtADDL(str(1), <<"a">>), V_EXIT}
\* what the caller writes into an object it holds
CallerLine == <<"x">>
CallerFeedback == <<"x">>

\* what the caller makes of a list it holds: its line appended, once, or
\* the list cleared
Mutated(ls) ==
    IF \E k \in 1..Len(ls) : ls[k] = CallerLine
    THEN {<<>>}
    ELSE {Append(ls, CallerLine), <<>>}

\* env = CoEEnv(code_lines, tests), code_lines being the list object 1
OwnInit ==
    /\ tests \in TestLists
    /\ \E ls \in OwnBuffers :
        \E h \in {ScratchpadState([lists |-> <<ls>>, objs |-> <<>>], 1, <<>>)} :
            /\ lists = h.lists
            /\ objs = [h.objs EXCEPT ![h.ref].feedback = update_feedback(ls, tests)]
            /\ state = h.ref
    /\ arg = 1 /\ snaps = <<>> /\ who = 0
    /\ pc = "own" /\ op = "init" /\ action = <<>> /\ raised = "none"
    /\ lines = <<>> /\ feedback = <<>> /\ before = <<>>
    /\ clean = <<>> /\ num_corruptions = 0 /\ code = <<>> /\ ops = <<>> /\ todo = <<>>
    /\ current_lines = <<>> /\ trace = <<>>
    /\ RolloutIdle /\ AdvIdle /\ RunIdle /\ TrainIdle

\* snapshot = env.apply(a): the edit in place on the engine's list, the
\* feedback stored in the engine's object, and the copy returned
OwnApply ==
    /\ pc = "own" /\ Len(snaps) < MaxSnaps
    /\ \E a \in OwnActions :
        \E r \in {apply_edit(lists[objs[state].code_lines], a)} :
            /\ action' = a /\ raised' = r.exc /\ op' = "apply"
            /\ IF r.exc # "none"
               THEN UNCHANGED <<lists, objs, snaps>>
               ELSE \E h \in {deepcopy(
                        [lists |-> [lists EXCEPT ![objs[state].code_lines] = r.lines],
                         objs |-> [objs EXCEPT ![state].feedback =
                                        update_feedback(r.lines, tests)]],
                        state)} :
                    /\ lists' = h.lists
                    /\ objs' = h.objs
                    /\ snaps' = Append(snaps, h.ref)
    /\ UNCHANGED <<tests, lines, feedback, before, state, arg, who>>
    /\ UNCHANGED <<clean, num_corruptions, code, ops, todo, current_lines, trace, pc>>
    /\ UNCHANGED <<rollout_vars, adv_vars, run_vars, train_vars>>

OwnFrame ==
    /\ UNCHANGED <<tests, lines, feedback, before, action, raised, state, arg, snaps>>
    /\ UNCHANGED <<clean, num_corruptions, code, ops, todo, current_lines, trace, pc>>
    /\ UNCHANGED <<rollout_vars, adv_vars, run_vars, train_vars>>

\* the caller appends to, or clears, the list it passed to the constructor
MutateArg ==
    /\ pc = "own"
    /\ \E new \in Mutated(lists[arg]) :
        lists' = [lists EXCEPT ![arg] = new]
    /\ who' = 0 /\ op' = "mutate"
    /\ UNCHANGED objs
    /\ OwnFrame

\* the caller appends to, or clears, the code_lines of snapshot k
MutateSnapshotLines ==
    /\ pc = "own"
    /\ \E k \in 1..Len(snaps) :
        \E new \in Mutated(View(snaps[k]).code_lines) :
            /\ lists' = [lists EXCEPT ![objs[snaps[k]].code_lines] = new]
            /\ who' = k
    /\ op' = "mutate"
    /\ UNCHANGED objs
    /\ OwnFrame

\* the caller assigns the feedback of snapshot k
MutateSnapshotFeedback ==
    /\ pc = "own"
    /\ \E k \in 1..Len(snaps) :
        /\ objs' = [objs EXCEPT ![snaps[k]].feedback = CallerFeedback]
        /\ who' = k
    /\ op' = "mutate"
    /\ UNCHANGED lists
    /\ OwnFrame

OwnNext == OwnApply \/ MutateArg \/ MutateSnapshotLines \/ MutateSnapshotFeedback

SpecOwn == OwnInit /\ [][OwnNext]_vars

----------------------------------------------------------------------------
(* Rollout Driver: rollout_one of src/src/rl_train.py.  The policy is
   external: the text it decodes is an input of each turn.  A reward is
   counted in halves, the unit of each of its terms. *)

MaxTurns == 3           \* largest max_turns explored

HALF == 1               \* 0.5
ONE == 2                \* 1.0

\* sample_action: tokenizer.decode(out, skip_special_tokens=True).strip()
sample_action(decoded) == strip(decoded)

\* action.splitlines()[0] for a non-empty text
first_line(text) ==
    IF contains(text, NL) THEN SubSeq(text, 1, find(text, NL) - 1) ELSE text

\* the action of a turn as it would be with the whole text taken
choose_action_whole_text(text) == IF text # <<>> THEN text ELSE V_EXIT

\* action.splitlines()[0] if action else "EXIT"
choose_action(text) == IF text # <<>> THEN first_line(text) ELSE V_EXIT

\* the success term as it would be without the test of the feedback before
success_reward_any_empty(before_fb, new_fb) == IF new_fb = <<>> THEN ONE ELSE 0

\* reward = 0.0; if new_state.feedback == "" and before != "": reward = 1.0
success_reward(before_fb, new_fb) ==
    IF new_fb = <<>> /\ before_fb # <<>> THEN ONE ELSE 0

\* the test of the penalty as it would be with EXIT as the only verb
malformed_not_exit(act) == ~startswith(act, V_EXIT)

\* not action.startswith(("DELL", "ADDL", "REPL", "REPW", "EXIT"))
malformed(act) ==
    ~(\E v \in {V_DELL, V_ADDL, V_REPL, V_REPW, V_EXIT} : startswith(act, v))

\* the loop as it would be without its break
breaks_never(act) == FALSE

\* if action.startswith("EXIT"): break
breaks(act) == startswith(act, V_EXIT)

\* the condition of the penalty after the loop
post_penalty(fb, tr) ==
    fb = <<>> /\ (Len(tr) = 0 \/ ~startswith(tr[Len(tr)].action, V_EXIT))

\* env.state.render() + "\n### "
prompt_of(code_lines, fb) == render(code_lines, fb) \o <<"\n", "#", "#", "#", " ">>

\* compute_logprob: the log-probability the external policy gives the action
compute_logprob(prompt, act) == "logp"

\* the buffers of the tasks: empty, failing one test, passing, not executable
RolloutBuffers ==
    { <<>>, << <<"a">> >>, << <<"a", "a">> >>, << <<"a">>, <<"a", "a">> >>, << <<"!">> >> }

\* the texts the policy decodes: empty, blank, edits, EXIT, words that only
\* start with a verb, an unknown verb, two lines, a leading newline, a line
\* number int() rejects
Decoded ==
    { <<>>, SP,
      FmtADDL(str(1), <<"a">>), FmtADDL(str(1), <<"a", "a">>), FmtDELL(str(1)),
      V_EXIT, V_EXIT \o <<"I", "N", "G">>,
      V_DELL \o <<"X">> \o SP \o <<"1">>,
      <<"F", "O", "O">>,
      FmtDELL(str(1)) \o NL \o V_EXIT,
      NL \o FmtDELL(str(1)) \o SP,
      FmtDELL(<<"^2">>) }

\* rollout_one(model, tokenizer, init_code_lines, tests, max_turns) is called
RolloutInit ==
    /\ tests \in TestLists
    /\ lines \in RolloutBuffers
    /\ feedback = update_feedback(lines, tests)
    /\ op = "init" /\ action = <<>> /\ before = lines /\ raised = "none"
    /\ max_turns \in 0..MaxTurns
    /\ turn = 0 /\ traj = <<>> /\ hist = <<>> /\ generated = <<>>
    /\ pc = IF max_turns = 0 THEN "post" ELSE "loop"
    /\ clean = <<>> /\ num_corruptions = 0 /\ code = <<>> /\ ops = <<>> /\ todo = <<>>
    /\ current_lines = <<>> /\ trace = <<>>
    /\ OwnIdle /\ AdvIdle /\ RunIdle /\ TrainIdle

RolloutFrame ==
    /\ UNCHANGED <<tests, max_turns>>
    /\ UNCHANGED <<clean, num_corruptions, code, ops, todo, current_lines, trace>>
    /\ UNCHANGED <<own_vars, adv_vars, run_vars, train_vars>>

\* one turn of the loop; an exception of apply leaves rollout_one
Turn ==
    /\ pc = "loop" /\ turn < max_turns
    /\ \E decoded \in Decoded :
        \E act \in {choose_action(sample_action(decoded))} :
        \E r \in {apply_edit(lines, act)} :
            /\ WithinBounds(r.lines)
            /\ generated' = sample_action(decoded)
            /\ action' = act /\ before' = lines /\ op' = "apply" /\ raised' = r.exc
            /\ turn' = turn + 1
            /\ IF r.exc # "none"
               THEN /\ pc' = "raised"
                    /\ UNCHANGED <<lines, feedback, traj, hist>>
               ELSE \E fb \in {update_feedback(r.lines, tests)} :
                    \E reward \in {success_reward(feedback, fb)
                                    - (IF malformed(act) THEN HALF ELSE 0)} :
                        /\ lines' = r.lines
                        /\ feedback' = fb
                        /\ traj' = Append(traj,
                                [prompt |-> prompt_of(lines, feedback),
                                 action |-> act,
                                 logp |-> compute_logprob(prompt_of(lines, feedback), act),
                                 reward |-> reward])
                        /\ hist' = Append(hist,
                                [generated |-> sample_action(decoded),
                                 before |-> feedback, after |-> fb, reward |-> reward])
                        /\ pc' = IF breaks(act) \/ turn + 1 = max_turns
                                 THEN "post" ELSE "loop"
    /\ RolloutFrame

\* the penalty after the loop and the return; traj[-1] of an empty traj
\* raises IndexError
PostLoop ==
    /\ pc = "post"
    /\ IF post_penalty(feedback, traj)
       THEN IF Len(traj) = 0
            THEN /\ pc' = "raised" /\ raised' = "IndexError"
                 /\ UNCHANGED traj
            ELSE /\ traj' = [traj EXCEPT ![Len(traj)].reward = @ - HALF]
                 /\ pc' = "returned"
                 /\ UNCHANGED raised
       ELSE /\ pc' = "returned"
            /\ UNCHANGED <<traj, raised>>
    /\ UNCHANGED <<lines, feedback, op, action, before, hist, turn, generated>>
    /\ RolloutFrame

RolloutNext == Turn \/ PostLoop

SpecRollout == RolloutInit /\ [][RolloutNext]_vars

\* every turn and the return are steps of one running call
SpecRolloutFair == SpecRollout /\ WF_vars(RolloutNext)

----------------------------------------------------------------------------
(* Advantage Estimator: compute_returns_and_advantages of src/src/rl_train.py.
   Rewards and returns are counted in halves.  A mean, a deviation and a
   variance are exact fractions num / den; an advantage is kept as the
   deviation dev and the squared deviation unit sigma2 and stands for
   dev / sqrt(sigma2). *)

MaxGroup == 2           \* most trajectories of a group
MaxSteps == 2           \* most steps of a trajectory of a group

Q(n, d) == [num |-> n, den |-> d]

\* gamma=1.0
gamma == 1

\* the list R as it would be with the reward of each step alone
returns_of_rewards(tr) == [t \in 1..Len(tr) |-> tr[t].reward]

\* the list R of one trajectory: future = step["reward"] + gamma * future,
\* from the last step backwards
RECURSIVE returns_of(_)
returns_of(tr) ==
    IF tr = <<>> THEN <<>>
    ELSE LET R == returns_of(Tail(tr))
             future == IF R = <<>> THEN 0 ELSE R[1]
         IN <<Head(tr).reward + gamma * future>> \o R

\* the list returns: the list R of every trajectory of the group, in order
all_returns(group) == [i \in 1..Len(group) |-> returns_of(group[i])]

\* vals of turn t: R[t] of every trajectory that has a step at t, in order
RECURSIVE vals_at(_, _)
vals_at(Rs, t) ==
    IF Rs = <<>> THEN <<>>
    ELSE (IF t <= Len(Head(Rs)) THEN <<Head(Rs)[t]>> ELSE <<>>)
            \o vals_at(Tail(Rs), t)

\* sum(vals)
RECURSIVE sum(_)
sum(vals) == IF vals = <<>> THEN 0 ELSE Head(vals) + sum(Tail(vals))

\* sum((v - mu)**2 for v in vals), with mu = s / n, times n * n
RECURSIVE sum_sq_dev(_, _, _)
sum_sq_dev(vals, s, n) ==
    IF vals = <<>> THEN 0
    ELSE (n * Head(vals) - s) * (n * Head(vals) - s) + sum_sq_dev(Tail(vals), s, n)

\* 1e-6 and 1.0 as squares of a number of halves
EPS == Q(4, 1000000)
SIGMA_ONE == Q(ONE * ONE, 1)

\* max(var, 1e-6)
max_var(var) == IF var.num * EPS.den >= EPS.num * var.den THEN var ELSE EPS

\* mu and sigma of a turn as they would be with mu = 0.0 for a single value
turn_stats_single_mu_zero(vals) ==
    LET n == Len(vals) IN
    IF n >= 2
    THEN [mu |-> Q(sum(vals), n),
          sigma2 |-> max_var(Q(sum_sq_dev(vals, sum(vals), n), n * n * (n - 1)))]
    ELSE [mu |-> Q(0, 1), sigma2 |-> SIGMA_ONE]

\* mu and sigma, squared, of a turn
turn_stats(vals) ==
    LET n == Len(vals) IN
    IF n >= 2
    THEN [mu |-> Q(sum(vals), n),
          sigma2 |-> max_var(Q(sum_sq_dev(vals, sum(vals), n), n * n * (n - 1)))]
    ELSE IF n = 1
    THEN [mu |-> Q(vals[1], 1), sigma2 |-> SIGMA_ONE]
    ELSE [mu |-> Q(0, 1), sigma2 |-> SIGMA_ONE]

\* the advantage as it would be without the mean subtracted
advantage_no_mean(v, stats) ==
    [dev |-> Q(v, 1), sigma2 |-> stats.sigma2]

\* (vals[j] - mu) / sigma
advantage(v, stats) ==
    [dev |-> Q(v * stats.mu.den - stats.mu.num, stats.mu.den), sigma2 |-> stats.sigma2]

RECURSIVE concat(_)
concat(xss) == IF xss = <<>> THEN <<>> ELSE Head(xss) \o concat(Tail(xss))

\* compute_returns_and_advantages(group_trajs): every trajectory has an
\* advantage at each of its turns, so advantages[i][t] is the one of turn t
compute_returns_and_advantages(group) ==
    LET Rs == all_returns(group)
        flat(i) == [t \in 1..Len(group[i]) |->
                        [prompt |-> group[i][t].prompt,
                         action |-> group[i][t].action,
                         old_logp |-> group[i][t].logp,
                         adv |-> advantage(Rs[i][t],
                                           turn_stats(vals_at(Rs, t)))]]
    IN concat([i \in 1..Len(group) |-> flat(i)])

\* the rewards a step can carry here: -1.0, 0.0, 1.0
Rewards == {0 - ONE, 0, ONE}

\* all sequences of at most n elements of S
RECURSIVE SeqsUpTo(_, _)
SeqsUpTo(S, n) ==
    IF n = 0 THEN {<<>>}
    ELSE LET P == SeqsUpTo(S, n - 1) IN
         P \cup {Append(x, e) : x \in {y \in P : Len(y) = n - 1}, e \in S}

\* the steps rollout_one records, with each of the rewards
GroupSteps ==
    {[prompt |-> prompt_of(<<>>, <<>>), action |-> V_EXIT,
      logp |-> compute_logprob(prompt_of(<<>>, <<>>), V_EXIT), reward |-> r] : r \in Rewards}

\* compute_returns_and_advantages is called with a group of trajectories
AdvInit ==
    /\ group_trajs \in SeqsUpTo(SeqsUpTo(GroupSteps, MaxSteps), MaxGroup) \ {<<>>}
    /\ flat_steps = <<>> /\ returns = <<>>
    /\ pc = "estimate"
    /\ tests = <<>> /\ lines = <<>> /\ feedback = <<>> /\ op = "none"
    /\ action = <<>> /\ before = <<>> /\ raised = "none"
    /\ clean = <<>> /\ num_corruptions = 0 /\ code = <<>> /\ ops = <<>> /\ todo = <<>>
    /\ current_lines = <<>> /\ trace = <<>>
    /\ OwnIdle /\ RolloutIdle /\ RunIdle /\ TrainIdle

\* steps = compute_returns_and_advantages(group_trajs)
Estimate ==
    /\ pc = "estimate"
    /\ flat_steps' = compute_returns_and_advantages(group_trajs)
    /\ returns' = all_returns(group_trajs)
    /\ pc' = "estimated"
    /\ UNCHANGED <<engine_vars, clean, num_corruptions, code, ops, todo,
                   current_lines, trace, own_vars, rollout_vars, group_trajs,
                   run_vars, train_vars>>

AdvNext == Estimate

SpecAdv == AdvInit /\ [][AdvNext]_vars

----------------------------------------------------------------------------
(* Trainer: the minibatch loop of train_loop, src/src/rl_train.py, over the
   steps of one group.  The tokenizer and the policy are external: the
   tokenizer is a fixed function of the text it is given, and the loss the
   live policy gives a step is an input of the minibatch.  A minibatch loss
   is an exact fraction. *)

MaxTrainSteps == 3      \* most steps of a group given to the minibatch loop
MaxBatch == 2           \* largest args.batch_size explored

\* enc_action["input_ids"].shape[1]: here the tokenizer gives one token per
\* whitespace-delimited word, and none for a text without words
act_len(action_text) == Len(split(action_text))

\* the steps of the group: one whose action has no token, one with a token
TrainSteps ==
    {[prompt |-> prompt_of(<<>>, <<>>), action |-> a, old_logp |-> "logp",
      adv |-> [dev |-> Q(0, 1), sigma2 |-> SIGMA_ONE]] : a \in {<<>>, V_EXIT}}

\* the values of the loss of a step: -min(ratio * adv, clipped * adv)
Losses == {0 - 1, 0, 2}

\* steps[i:i+args.batch_size], with i counted from 1
batch_at(steps, i, size) == SubSeq(steps, i, Min(i + size - 1, Len(steps)))

\* loss_total and contrib after the steps of the batch from step k on
RECURSIVE accumulate(_, _, _)
accumulate(batch, losses, k) ==
    IF k > Len(batch) THEN [loss_total |-> 0, contrib |-> 0]
    ELSE LET rest == accumulate(batch, losses, k + 1) IN
         IF act_len(batch[k].action) = 0 THEN rest
         ELSE [loss_total |-> losses[k] + rest.loss_total, contrib |-> rest.contrib + 1]

\* the end of a minibatch as it would be with the mean over all its steps
finish_minibatch_mean_of_batch(batch, acc) ==
    IF acc.contrib = 0 THEN [loss |-> <<>>, stepped |-> FALSE]
    ELSE [loss |-> <<Q(acc.loss_total, Len(batch))>>, stepped |-> TRUE]

\* if contrib == 0: continue; loss_total = loss_total / contrib;
\* loss_total.backward(); optimizer.step()
finish_minibatch(batch, acc) ==
    IF acc.contrib = 0 THEN [loss |-> <<>>, stepped |-> FALSE]
    ELSE [loss |-> <<Q(acc.loss_total, acc.contrib)>>, stepped |-> TRUE]

\* the minibatch loop is entered with the steps of a group
TrainInit ==
    /\ flat_steps \in SeqsUpTo(TrainSteps, MaxTrainSteps)
    /\ batch_size \in 1..MaxBatch
    /\ batch_start = 1
    /\ optimizer_steps = 0
    /\ minibatches = <<>>
    /\ pc = IF flat_steps = <<>> THEN "trained" ELSE "train"
    /\ group_trajs = <<>> /\ returns = <<>>
    /\ tests = <<>> /\ lines = <<>> /\ feedback = <<>> /\ op = "none"
    /\ action = <<>> /\ before = <<>> /\ raised = "none"
    /\ clean = <<>> /\ num_corruptions = 0 /\ code = <<>> /\ ops = <<>> /\ todo = <<>>
    /\ current_lines = <<>> /\ trace = <<>>
    /\ OwnIdle /\ RolloutIdle /\ RunIdle

\* one turn of the loop over the minibatches
Minibatch ==
    /\ pc = "train" /\ batch_start <= Len(flat_steps)
    /\ \E batch \in {batch_at(flat_steps, batch_start, batch_size)} :
       \E losses \in [1..Len(batch) -> Losses] :
       \E acc \in {accumulate(batch, losses, 1)} :
       \E end \in {finish_minibatch(batch, acc)} :
            /\ optimizer_steps' = optimizer_steps + (IF end.stepped THEN 1 ELSE 0)
            /\ minibatches' = Append(minibatches,
                    [batch |-> batch, losses |-> losses, contrib |-> acc.contrib,
                     loss |-> end.loss, optimizer_steps |-> optimizer_steps'])
    /\ batch_start' = batch_start + batch_size
    /\ pc' = IF batch_start' <= Len(flat_steps) THEN "train" ELSE "trained"
    /\ UNCHANGED <<engine_vars, clean, num_corruptions, code, ops, todo,
                   current_lines, trace, own_vars, rollout_vars, adv_vars, run_vars,
                   batch_size>>

TrainNext == Minibatch

SpecTrain == TrainInit /\ [][TrainNext]_vars

----------------------------------------------------------------------------
(* Test Harness as a state machine: one call of DSLExecutor.run on the text
   of a buffer *)

\* the test lists given to DSLExecutor: none, one, two in both orders, three
RunTests ==
    { <<>>, << <<"a">> >>, << <<"a">>, <<"a", "a">> >>, << <<"a", "a">>, <<"a">> >>,
      << <<"a">>, <<"a", "a">>, <<"a">> >> }

\* DSLExecutor(tests) is built and run is about to be called
RunInit ==
    /\ tests \in RunTests
    /\ lines \in Buffers(LineTexts, MaxLines)
    /\ feedback = <<>> /\ executed = <<>>
    /\ pc = "run"
    /\ op = "none" /\ action = <<>> /\ before = <<>> /\ raised = "none"
    /\ clean = <<>> /\ num_corruptions = 0 /\ code = <<>> /\ ops = <<>> /\ todo = <<>>
    /\ current_lines = <<>> /\ trace = <<>>
    /\ OwnIdle /\ RolloutIdle /\ AdvIdle /\ TrainIdle

\* feedback = DSLExecutor.run("\n".join(code_lines))
Run ==
    /\ pc = "run"
    /\ feedback' = run(join_nl(lines), tests)
    /\ executed' = exec_calls(join_nl(lines), tests)
    /\ pc' = "ran"
    /\ UNCHANGED <<tests, lines, op, action, before, raised>>
    /\ UNCHANGED <<clean, num_corruptions, code, ops, todo, current_lines, trace>>
    /\ UNCHANGED <<own_vars, rollout_vars, adv_vars, train_vars>>

RunNext == Run

SpecRun == RunInit /\ [][RunNext]_vars

----------------------------------------------------------------------------
(* Properties of the Edit Engine *)

Applied == op = "apply"

\* the words of the last action and its line number, where it has one
ActParts == split(strip(action))
ActVerb == IF ActParts = <<>> THEN <<>> ELSE ActParts[1]
ActHasNumber == Len(ActParts) >= 2 /\ int_ok(ActParts[2])
ActNumber == int(ActParts[2])

\* the buffer ls passes: executing it raises nothing and no test raises
Passes(ls, ts) ==
    /\ ~ExecRaises(join_nl(ls))
    /\ \A i \in 1..Len(ts) : ~TestRaises(join_nl(ls), ts[i])

\* C1: in every state of the engine, after construction and after every
\* apply, the feedback is empty exactly when executing the buffer raises no
\* error and no test statement raises an error against it.
C1_FeedbackEmptyIffPasses == (feedback = <<>>) <=> Passes(lines, tests)

\* an apply that made a buffer pass which raised nothing and failed one test
C1_Witness ==
    /\ Applied /\ raised = "none"
    /\ feedback = <<>>
    /\ lines # before
    /\ ~ExecRaises(join_nl(before))
    /\ TestRaises(join_nl(before), tests[1])
    /\ ~TestRaises(join_nl(before), tests[2])

\* xs without its element at position n, stated position by position
IsWithout(ys, xs, n) ==
    /\ Len(ys) = Len(xs) - 1
    /\ \A i \in 1..Len(ys) : ys[i] = xs[IF i < n THEN i ELSE i + 1]

\* C2: DELL <line> with 1 <= line <= N removes that line of an N-line
\* buffer and keeps the other lines in their order.
C2_DeleteInRange ==
    \A n \in 1..Len(before) :
        (Applied /\ action = FmtDELL(str(n)))
            => (raised = "none" /\ IsWithout(lines, before, n))

\* the middle line of three different lines deleted
C2_Witness ==
    /\ Applied /\ action = FmtDELL(str(2))
    /\ Len(before) = 3 /\ before[1] # before[2] /\ before[2] # before[3]
    /\ before[1] # before[3]
    /\ lines = <<before[1], before[3]>>

\* C3 as claimed: ADDL <line> >>><content> with 1 <= line <= N + 1 yields
\* N + 1 lines with exactly <content> at position line and the other lines
\* in their order, for every content.
C3_InsertAnyContent ==
    \A n \in 1..(Len(before) + 1) : \A c \in AddContents :
        (Applied /\ action = FmtADDL(str(n), c))
            => (lines[n] = c /\ IsWithout(before, lines, n))

\* C4: DELL, REPL and REPW with a line number that is 0 or greater than the
\* length of the buffer leave the lines as they were.
C4_OutOfRangeUnchanged ==
    (/\ Applied
     /\ ActVerb \in {V_DELL, V_REPL, V_REPW}
     /\ ActHasNumber
     /\ (ActNumber < 1 \/ ActNumber > Len(before)))
        => lines = before

\* line 99 of a two-line buffer
C4_Witness ==
    /\ Applied /\ action = FmtDELL(<<"9", "9">>)
    /\ Len(before) = 2 /\ lines = before /\ raised = "none"

\* C5 as claimed: REPL <line> >>><text> with <text> the current text of
\* that line leaves the buffer unchanged, whatever the text.
C5_ReplaceBySelf ==
    \A n \in 1..Len(before) :
        (Applied /\ action = FmtREPL(str(n), before[n])) => lines = before

\* C7 as claimed: apply never raises, whatever the action text.
C7_ApplyNeverRaises == raised = "none"

\* the classes of malformed text that C8 names
TheVerbs == {V_DELL, V_ADDL, V_REPL, V_REPW, V_EXIT}
UnknownVerb == ActVerb \notin TheVerbs
BadLineNumber == ActVerb \in {V_DELL, V_ADDL, V_REPL, V_REPW} /\ ~ActHasNumber
NoContentField == ActVerb \in {V_ADDL, V_REPL} /\ ActHasNumber /\ ~contains(action, GT3)
NoTwoFields ==
    /\ ActVerb = V_REPW
    /\ (~contains(action, GT3) \/ ~contains(split1_tail(action, GT3), GT3))

\* C8 as claimed: a text outside the grammar (unknown verb, missing or
\* non-numeric line number, ADDL or REPL without a >>> field, REPW without
\* two >>> fields) leaves the lines as they were.
C8_MalformedIsNoOp ==
    (Applied /\ (UnknownVerb \/ BadLineNumber \/ NoContentField \/ NoTwoFields))
        => lines = before

\* C8 as amended: an unknown verb, a missing or non-numeric line number and
\* a REPW without two >>> fields leave the lines as they were; ADDL and REPL
\* with a line number and no >>> field act with the empty text as content.
C8_MalformedIsNoOpAmended ==
    /\ (Applied /\ (UnknownVerb \/ BadLineNumber \/ NoTwoFields)) => lines = before
    /\ (Applied /\ NoContentField /\ ActVerb = V_ADDL)
            => \E p \in 1..Len(lines) : lines[p] = <<>> /\ IsWithout(before, lines, p)
    /\ (Applied /\ NoContentField /\ ActVerb = V_REPL /\ ActNumber \in 1..Len(before))
            => lines = [before EXCEPT ![ActNumber] = <<>>]

\* an unknown verb that starts with a verb, on a buffer DELL 1 would change
C8_Witness ==
    /\ Applied /\ action = V_DELL \o <<"X">> \o SP \o <<"1">>
    /\ Len(before) >= 1 /\ lines = before

\* the position ADDL inserts at
Clamp(n, len) == IF n < 1 THEN 1 ELSE IF n > len + 1 THEN len + 1 ELSE n

RECURSIVE ReplacedFrom(_, _, _, _)
ReplacedFrom(s, old, new, i) ==
    IF i > Len(s) THEN (IF old = <<>> THEN new ELSE <<>>)
    ELSE IF i + Len(old) - 1 <= Len(s) /\ \A k \in 1..Len(old) : s[i + k - 1] = old[k]
         THEN IF old = <<>>
              THEN new \o <<s[i]>> \o ReplacedFrom(s, old, new, i + 1)
              ELSE new \o ReplacedFrom(s, old, new, i + Len(old))
         ELSE <<s[i]>> \o ReplacedFrom(s, old, new, i + 1)

\* C10: REPW on a line number in [1, N] replaces every occurrence of old by
\* new in that line and leaves the other lines and their number unchanged.
C10_ReplaceSubstring ==
    (/\ Applied /\ ActVerb = V_REPW /\ REPW_match(strip(action)).ok
     /\ ActNumber \in 1..Len(before))
        => LET m == REPW_match(strip(action)) IN
           /\ Len(lines) = Len(before)
           /\ \A i \in 1..Len(before) :
                lines[i] = IF i = ActNumber
                           THEN ReplacedFrom(before[i], m.old, m.new, 1)
                           ELSE before[i]

\* both occurrences of "a" in the second of three lines replaced
C10_Witness ==
    /\ Applied /\ action = FmtREPW(str(2), <<"a">>, <<>>)
    /\ Len(before) = 3 /\ before[2] = <<"a", "a">> /\ before[1] = <<"a">>
    /\ lines = <<before[1], <<>>, before[3]>>

\* C11 as claimed: a REPW text of the documented grammar, with a space
\* before each >>>, replaces every occurrence of exactly <old> by exactly
\* <new> in the line: the separating space belongs to neither.
C11_DocGrammarParsed ==
    \A n \in 1..Len(before) :
        (Applied /\ action = FmtREPWdoc(str(n), <<"a">>, <<>>))
            => lines[n] = ReplacedFrom(before[n], <<"a">>, <<>>, 1)


\* the n-th smallest element of the set F of numbers
NthOf(F, n) == CHOOSE x \in F : Cardinality({y \in F : y < x}) = n - 1

\* C26: when executing the buffer raises, no test statement is executed and
\* the feedback is the execution diagnostic; when it does not raise, every
\* test statement is executed in list order, also after an earlier test has
\* failed, and the feedback lists exactly the failing tests, in order, each
\* with its 1-based index.
C26_RunOrder ==
    pc = "ran" =>
        IF ExecRaises(join_nl(lines))
        THEN /\ executed = <<join_nl(lines)>>
             /\ feedback = format_exc
        ELSE LET F == {k \in 1..Len(tests) : TestRaises(join_nl(lines), tests[k])} IN
             /\ executed = <<join_nl(lines)>> \o tests
             /\ feedback = join_nl([n \in 1..Cardinality(F) |->
                                FailureMessage(NthOf(F, n), tests[NthOf(F, n)])])

\* three tests of which the first and the third fail and the second passes
C26_Witness ==
    /\ pc = "ran" /\ Len(tests) = 3 /\ lines = << <<"a", "a">> >>
    /\ Len(executed) = 4
    /\ feedback = FailureMessage(1, tests[1]) \o NL \o FailureMessage(3, tests[3])

----------------------------------------------------------------------------
(* Properties of the ownership of the CodeState *)

\* what the engine holds is what its own operations left there
EngineCoherent ==
    /\ View(state).feedback = update_feedback(View(state).code_lines, tests)
    /\ \A i \in 1..Len(View(state).code_lines) :
            View(state).code_lines[i] # CallerLine

\* C12: a mutation by the caller, of the list it passed to the constructor
\* or of the lines or the feedback of a snapshot, changes neither what the
\* engine holds nor any other snapshot, and the snapshot a later apply
\* returns is what the engine holds then.
C12_SnapshotsIndependent ==
    /\ [](pc = "own" => EngineCoherent)
    /\ []((pc = "own" /\ op = "apply" /\ raised = "none")
            => View(snaps[Len(snaps)]) = View(state))
    /\ [][(pc = "own" /\ op' = "mutate")
            => /\ View(state)' = View(state)
               /\ \A j \in 1..Len(snaps) :
                    j # who' => View(snaps[j])' = View(snaps[j])]_vars

\* the caller changed the lines and the feedback of the first snapshot, and
\* a later apply returned a second one that is what the engine holds
C12_Witness ==
    /\ pc = "own" /\ op = "apply" /\ raised = "none" /\ Len(snaps) = 2
    /\ View(snaps[1]).feedback = CallerFeedback
    /\ \E i \in 1..Len(View(snaps[1]).code_lines) :
            View(snaps[1]).code_lines[i] = CallerLine
    /\ Len(lists[arg]) # Len(View(state).code_lines)
    /\ View(snaps[2]) = View(state)
    /\ View(state).code_lines # <<>>

----------------------------------------------------------------------------
(* Properties of the Rollout Driver *)

Steps == 1..Len(hist)

\* the first whitespace-delimited token of an action text
LeadingToken(act) == IF split(act) = <<>> THEN <<>> ELSE split(act)[1]

\* the action is the Exit action of the grammar
IsExit(act) == LeadingToken(act) = V_EXIT

RolloutEnded == pc \in {"returned", "raised"}

\* C13 as claimed: a rollout stops as soon as feedback becomes empty: after
\* a step whose resulting feedback is empty there is no further policy query
\* and no further step.
C13_StopsOnEmptyFeedback ==
    \A i \in Steps : hist[i].after = <<>> => (i = Len(hist) /\ turn = i)

\* C14: every rollout terminates; its trajectory has at most max_turns
\* steps, and an Exit action ends the loop, so an Exit step is the last step.
C14_Terminates ==
    /\ [](/\ Len(traj) <= max_turns
          /\ \A i \in 1..Len(traj) :
                IsExit(traj[i].action) => (i = Len(traj) /\ pc # "loop"))
    /\ <>RolloutEnded

\* a trajectory that EXIT ended before the turn budget was used
C14_Witness ==
    /\ pc = "returned" /\ max_turns = 2 /\ Len(traj) = 1
    /\ traj[1].action = V_EXIT /\ turn = 1

\* C15: the reward a step gets in the loop holds the +1.0 success term
\* exactly when the feedback was non-empty before the action was applied and
\* is empty after it.
C15_SuccessTerm ==
    \A i \in Steps :
        (hist[i].reward >= HALF) <=> (hist[i].before # <<>> /\ hist[i].after = <<>>)

\* a step that made the feedback empty, followed by a step on empty feedback
C15_Witness ==
    /\ Len(hist) = 2
    /\ hist[1].before # <<>> /\ hist[1].after = <<>> /\ hist[1].reward = ONE
    /\ hist[2].before = <<>> /\ hist[2].after = <<>> /\ hist[2].reward = 0

\* the reward of the loop holds the malformed-action penalty
Penalized(reward) == reward \in {0 - HALF, ONE - HALF}

\* C16 as claimed: a step gets the -0.5 penalty exactly when the leading
\* token of its action is none of DELL, ADDL, REPL, REPW, EXIT; DELLX 1 and
\* EXITING are penalized.
C16_PenaltyByLeadingToken ==
    \A i \in Steps :
        Penalized(hist[i].reward) <=> LeadingToken(traj[i].action) \notin TheVerbs

\* C17 as claimed: after the loop 0.5 is taken from the reward of the last
\* step exactly when the final feedback is empty and the last recorded
\* action is not Exit; every other reward is as the loop assigned it.
C17_PostLoopPenalty ==
    pc = "returned" =>
        /\ Len(traj) = Len(hist)
        /\ \A i \in Steps :
            traj[i].reward =
                IF i = Len(traj) /\ feedback = <<>> /\ ~IsExit(traj[i].action)
                THEN hist[i].reward - HALF
                ELSE hist[i].reward

\* a is the first line of the non-empty text g
IsFirstLineOf(a, g) ==
    /\ ~contains(a, NL)
    /\ startswith(g, a)
    /\ (Len(g) = Len(a) \/ g[Len(a) + 1] = "\n")

\* the action that belongs to the text g
ActionOf(a, g) == IF g = <<>> THEN a = V_EXIT ELSE IsFirstLineOf(a, g)

\* C18: the action applied and recorded at each step is the first line of
\* the text the policy returned, or EXIT when that text is empty; an empty
\* text ends the trajectory at its step and leaves the buffer as it was.
C18_FirstLineOrExit ==
    /\ (pc \in {"loop", "post", "returned", "raised"} /\ op = "apply")
            => ActionOf(action, generated)
    /\ (pc \in {"loop", "post"} /\ op = "apply") => traj[Len(traj)].action = action
    /\ \A i \in Steps :
        /\ ActionOf(traj[i].action, hist[i].generated)
        /\ hist[i].generated = <<>>
            => (i = Len(traj) /\ pc # "loop" /\ lines = before)

\* an empty text on a non-empty buffer, before the turn budget was used
C18_Witness ==
    /\ pc = "returned" /\ max_turns = 2 /\ Len(traj) = 1
    /\ hist[1].generated = <<>> /\ traj[1].action = V_EXIT
    /\ lines = before /\ lines # <<>>

\* C28 as claimed: within one trajectory at most one step carries the +1.0
\* success term: once the feedback has become empty, no later step of the
\* trajectory earns a second success reward.
C28_OneSuccessAtMost ==
    \A i, j \in Steps :
        (hist[i].reward >= HALF /\ hist[j].reward >= HALF) => i = j

\* C29 as claimed: rollout_one completes without raising for every task and
\* every max_turns >= 0, max_turns = 0 included.
C29_CompletesWithoutRaising == RolloutEnded => pc = "returned"

\* C30: a step that gets the malformed-action penalty does not get the +1.0
\* success term: its action leaves the buffer, and so the feedback, as it
\* was.
C30_PenaltyExcludesSuccess ==
    /\ \A i \in Steps :
        Penalized(hist[i].reward) =>
            (hist[i].reward = 0 - HALF /\ hist[i].after = hist[i].before)
    /\ (pc \in {"loop", "post", "returned"} /\ Len(hist) > 0
            /\ Penalized(hist[Len(hist)].reward))
        => (lines = before /\ feedback = hist[Len(hist)].before)

\* a penalized step on a buffer that fails its tests
C30_Witness ==
    /\ pc = "returned" /\ Len(hist) = 1
    /\ traj[1].action = <<"F", "O", "O">>
    /\ hist[1].before # <<>> /\ hist[1].reward = 0 - HALF
    /\ lines = before

----------------------------------------------------------------------------
(* Properties of the Advantage Estimator *)

Estimated == pc = "estimated"

\* the position in flat_steps of turn t of trajectory i
RECURSIVE Offset(_)
Offset(i) == IF i = 1 THEN 0 ELSE Offset(i - 1) + Len(group_trajs[i - 1])

AdvOf(i, t) == flat_steps[Offset(i) + t].adv

\* the rewards of trajectory i from turn t on, added up
RECURSIVE ReturnAt(_, _)
ReturnAt(i, t) ==
    IF t > Len(group_trajs[i]) THEN 0
    ELSE group_trajs[i][t].reward + ReturnAt(i, t + 1)

\* the advantage dev / sqrt(sigma2) is 0
IsZero(a) == a.dev.num = 0 /\ a.dev.den # 0 /\ a.sigma2.num > 0 /\ a.sigma2.den > 0

\* the advantages a and b have different signs and the same square
Opposite(a, b) ==
    /\ a.dev.num * a.dev.den * b.dev.num * b.dev.den < 0
    /\ a.dev.num * a.dev.num * a.sigma2.den * b.dev.den * b.dev.den * b.sigma2.num
        = b.dev.num * b.dev.num * b.sigma2.den * a.dev.den * a.dev.den * a.sigma2.num
    /\ a.sigma2.num > 0 /\ a.sigma2.den > 0 /\ b.sigma2.num > 0 /\ b.sigma2.den > 0

\* C19: in a group of two trajectories, at a turn both have, equal returns
\* give both steps advantage 0, and the returns 1.0 and -1.0 give advantages
\* of equal magnitude and opposite sign.
C19_TwoTrajectories ==
    (Estimated /\ Len(group_trajs) = 2) =>
        \A t \in 1..Min(Len(group_trajs[1]), Len(group_trajs[2])) :
            /\ ReturnAt(1, t) = ReturnAt(2, t)
                => (IsZero(AdvOf(1, t)) /\ IsZero(AdvOf(2, t)))
            /\ {ReturnAt(1, t), ReturnAt(2, t)} = {ONE, 0 - ONE}
                => Opposite(AdvOf(1, t), AdvOf(2, t))

\* two trajectories with equal returns at the first turn and the returns
\* 1.0 and -1.0 at the second
C19_Witness ==
    /\ Estimated /\ Len(group_trajs) = 2
    /\ Len(group_trajs[1]) = 2 /\ Len(group_trajs[2]) = 2
    /\ ReturnAt(1, 1) = ReturnAt(2, 1)
    /\ ReturnAt(1, 2) = ONE /\ ReturnAt(2, 2) = 0 - ONE
    /\ IsZero(AdvOf(1, 1)) /\ Opposite(AdvOf(1, 2), AdvOf(2, 2))

\* C20: a step at a turn where no other trajectory of the group has a step
\* gets advantage exactly 0, whatever its return.
C20_NoPeerZero ==
    Estimated =>
        \A i \in 1..Len(group_trajs) : \A t \in 1..Len(group_trajs[i]) :
            (\A k \in 1..Len(group_trajs) : k # i => Len(group_trajs[k]) < t)
                => IsZero(AdvOf(i, t))

\* the longer of two trajectories, with a return other than 0 at the turn
\* it alone has
C20_Witness ==
    /\ Estimated /\ Len(group_trajs) = 2
    /\ Len(group_trajs[1]) = 1 /\ Len(group_trajs[2]) = 2
    /\ ReturnAt(2, 2) = ONE
    /\ IsZero(AdvOf(2, 2)) /\ ~IsZero(AdvOf(2, 1))

\* sum of the rewards of the steps of a trajectory
RECURSIVE TotalReward(_)
TotalReward(tr) == IF tr = <<>> THEN 0 ELSE Head(tr).reward + TotalReward(Tail(tr))

\* C21: the return of each step is its reward plus gamma times the return of
\* the next step of the same trajectory, 0 past the last step; with the
\* default gamma = 1.0 the return at turn 0 is the total reward of the
\* trajectory, the post-loop penalty in the reward of its last step included.
C21_DiscountedReturns ==
    Estimated =>
        /\ Len(returns) = Len(group_trajs)
        /\ \A i \in 1..Len(group_trajs) :
            /\ Len(returns[i]) = Len(group_trajs[i])
            /\ \A t \in 1..Len(group_trajs[i]) :
                returns[i][t] = group_trajs[i][t].reward
                    + gamma * (IF t < Len(group_trajs[i]) THEN returns[i][t + 1] ELSE 0)
            /\ group_trajs[i] # <<>> => returns[i][1] = TotalReward(group_trajs[i])

\* a trajectory of two steps: +1.0, then -1.0 with the penalties in it
C21_Witness ==
    /\ Estimated
    /\ Len(group_trajs[1]) = 2
    /\ group_trajs[1][1].reward = ONE /\ group_trajs[1][2].reward = 0 - ONE
    /\ returns[1] = <<0, 0 - ONE>>

----------------------------------------------------------------------------
(* Properties of the Trainer *)

\* the positions of the steps of a batch whose action has a token
Contributing(batch) == {k \in 1..Len(batch) : act_len(batch[k].action) # 0}

\* the sum of the losses at the positions K
RECURSIVE SumAt(_, _)
SumAt(losses, K) ==
    IF K = {} THEN 0
    ELSE LET k == CHOOSE x \in K : TRUE IN losses[k] + SumAt(losses, K \ {k})

\* C22: a step whose action tokenizes to zero length is skipped and the
\* batch goes on; a minibatch performs exactly one optimizer step when at
\* least one of its steps contributes and none when none contributes, and
\* its loss is the mean over the contributing steps only.
C22_MinibatchStep ==
    /\ pc \in {"train", "trained"}
    /\ batch_start = 1 + Len(minibatches) * batch_size
    /\ pc = "trained" => batch_start > Len(flat_steps)
    /\ \A m \in 1..Len(minibatches) :
        LET b == minibatches[m]
            K == Contributing(b.batch)
            steps_before == IF m = 1 THEN 0 ELSE minibatches[m - 1].optimizer_steps
        IN /\ b.batch = batch_at(flat_steps, 1 + (m - 1) * batch_size, batch_size)
           /\ b.contrib = Cardinality(K)
           /\ b.optimizer_steps = steps_before + (IF K = {} THEN 0 ELSE 1)
           /\ b.loss = IF K = {} THEN <<>>
                       ELSE <<Q(SumAt(b.losses, K), Cardinality(K))>>
    /\ optimizer_steps =
            IF minibatches = <<>> THEN 0
            ELSE minibatches[Len(minibatches)].optimizer_steps

\* a minibatch of two steps of which one is skipped, then a minibatch whose
\* only step is skipped
C22_Witness ==
    /\ pc = "trained" /\ Len(minibatches) = 2
    /\ Len(minibatches[1].batch) = 2 /\ minibatches[1].contrib = 1
    /\ minibatches[1].loss = <<Q(2, 1)>>
    /\ minibatches[2].contrib = 0 /\ minibatches[2].loss = <<>>
    /\ optimizer_steps = 1

----------------------------------------------------------------------------
(* Properties of the Trace Synthesizer *)

\* the action texts of a finished trace: its elements at the even positions
\* before the closing EXIT
TraceActions == [k \in 1..((Len(trace) - 2) \div 2) |-> trace[2 * k]]

\* C6 as claimed: for every clean buffer and deleted position, the trace of
\* a single delete corruption holds exactly one inverse action, and the
\* engine, started on the corrupted buffer and given the actions of the
\* trace, ends on the clean buffer.
C6_SingleDeleteRestored ==
    (pc = "done" /\ ops = <<"delete">> /\ clean # <<>>)
        => (Len(TraceActions) = 1 /\ lines = clean)

\* the buffer of the engine after the first k actions of the trace, from the
\* corrupted lines
RECURSIVE BufferAfter(_)
BufferAfter(k) ==
    IF k = 0 THEN code ELSE apply_edit(BufferAfter(k - 1), trace[2 * k]).lines

\* C23: for k corruption operations the trace has exactly 2k+2 elements:
\* the rendering of the corrupted initial state, then k pairs of an action
\* and the rendering of the state after that action, in application order,
\* then the literal EXIT; also when a corruption was a no-op and when the
\* final state fails the tests.  The synthesizer returns a trace for every
\* non-empty clean buffer.
C23_TraceShape ==
    /\ pc = "raised" => clean = <<>>
    /\ pc = "done" =>
        /\ Len(ops) = num_corruptions
        /\ Len(trace) = 2 * num_corruptions + 2
        /\ trace[1] = render(code, update_feedback(code, tests))
        /\ \A k \in 1..num_corruptions :
            /\ trace[2 * k] =
                    invert_action_for_op(ops[num_corruptions + 1 - k], clean,
                                         BufferAfter(k - 1)).text
            /\ trace[2 * k + 1] =
                    render(BufferAfter(k), update_feedback(BufferAfter(k), tests))
        /\ BufferAfter(num_corruptions) = lines
        /\ trace[Len(trace)] = V_EXIT

\* a trace of two corruptions, the second a typo that changed nothing, whose
\* final state fails the tests
C23_Witness ==
    /\ pc = "done" /\ clean = << <<"a">> >> /\ ops = <<"replace", "typo">>
    /\ code = << <<"a", "a">> >>
    /\ Len(trace) = 6 /\ feedback # <<>>

\* the number of leading lines the buffer xs shares with the clean lines
RECURSIVE SharedPrefix(_, _)
SharedPrefix(xs, ys) ==
    IF xs = <<>> \/ ys = <<>> \/ Head(xs) # Head(ys) THEN 0
    ELSE 1 + SharedPrefix(Tail(xs), Tail(ys))

\* C24 as claimed: for every clean buffer and every sequence of corruption
\* operations, after each synthesized inverse action is applied the number
\* of leading lines the engine buffer shares with the clean lines is at
\* least what it was before that action.
C24_MonotoneRepair ==
    (pc \in {"invert", "done"} /\ op = "apply")
        => SharedPrefix(lines, clean) >= SharedPrefix(before, clean)

\* w2 is the word w with one character replaced by a lowercase letter, or,
\* for a word of one character, with a lowercase letter appended
TypoOfWord(w, w2) ==
    IF Len(w) > 1
    THEN /\ Len(w2) = Len(w)
         /\ \E pos \in 1..Len(w) :
                /\ w2[pos] \in Letters
                /\ \A k \in 1..Len(w) : k # pos => w2[k] = w[k]
    ELSE \E letter \in Letters : w2 = w \o <<letter>>

\* new_line is old_line with one whitespace-delimited word altered and every
\* other character, indentation and spacing included, as it was
TypoOfLine(old_line, new_line) ==
    \E s \in 1..Len(old_line) : \E e \in s..Len(old_line) :
        /\ s = 1 \/ IsSpace(old_line[s - 1])
        /\ e = Len(old_line) \/ IsSpace(old_line[e + 1])
        /\ \A k \in s..e : ~IsSpace(old_line[k])
        /\ \E w2 \in {SubSeq(new_line, s, Len(new_line) - (Len(old_line) - e))} :
            /\ TypoOfWord(SubSeq(old_line, s, e), w2)
            /\ new_line = SubSeq(old_line, 1, s - 1) \o w2
                            \o SubSeq(old_line, e + 1, Len(old_line))

\* C27 as claimed: the typo corruption keeps the number of lines and changes
\* at most one line; in the chosen line exactly one whitespace-delimited
\* word is altered while every other word and the indentation and spacing
\* of the line stay as they were; a line with no words and an empty buffer
\* are returned unchanged.
C27_TypoKeepsSpacing ==
    [][(ops' = Append(ops, "typo")) =>
        /\ Len(code') = Len(code)
        /\ code = <<>> => code' = code
        /\ code # <<>> =>
            \E idx \in 1..Len(code) :
                /\ \A j \in 1..Len(code) : j # idx => code'[j] = code[j]
                /\ IF split(code[idx]) = <<>> THEN code'[idx] = code[idx]
                   ELSE TypoOfLine(code[idx], code'[idx])]_vars

\* the text of the lines `L <i> <text>` of code_lines from line i on, each
\* line ended by its newline
RECURSIVE NumberedLines(_, _)
NumberedLines(code_lines, i) ==
    IF i > Len(code_lines) THEN <<>>
    ELSE <<"L", " ">> \o str(i) \o SP \o code_lines[i] \o NL
            \o NumberedLines(code_lines, i + 1)

\* C25 as claimed: the rendering of a state is, for every buffer, the empty
\* buffer included, and every feedback: one line `L <i> <text>` per buffer
\* line with i counting from 1 in buffer order, then a line holding exactly
\* `***`, then the feedback text.
C25_RenderFormat ==
    pc = "invert" =>
        trace[Len(trace)] = NumberedLines(lines, 1) \o <<"*", "*", "*">> \o NL \o feedback

====
